---- MODULE Spec2Model ----
(***************************************************************************)
(* State-machine model of the JSCarousel widget (src/src/carousel.ts).     *)
(*                                                                         *)
(* One carousel instance is modelled from the moment the factory has       *)
(* returned a handle.  The DOM is modelled by the parts of it the widget   *)
(* reads or writes: the inline transform of every slide, the class and     *)
(* aria-selected marker of every pagination button, the registered event   *)
(* listeners, the interval timers of the host and the animation timelines  *)
(* of the container subtree.  Every handler of the widget is one action.   *)
(***************************************************************************)
EXTENDS Integers, FiniteSets, Sequences, TLC

(* ---------------------------------------------------------------------- *)
(* Bounds of the model                                                     *)
(* ---------------------------------------------------------------------- *)
MaxSlides == 3      \* slide counts 1..MaxSlides
MaxTimers == 2      \* setInterval is called at most MaxTimers times
MaxRun == 4         \* longest observed run of consecutive moves

VARIABLES
  carousel,            \* TRUE when carouselSelector matches an element
  consoleError,        \* the message passed to console.error, or "none"
  slideCount,          \* slides.length, fixed at construction
  enableNextPrevious,  \* configuration flag
  enablePagination,    \* configuration flag
  enableAutoplay,      \* configuration flag
  phase,               \* "start" and "null" around the factory call, then
                       \* "constructed", "created" or "destroyed"
  currentSlideIndex,   \* let currentSlideIndex
  transform,           \* slide -> percentage of its translateX()
  paginationContainer, \* TRUE when the nav element has been built
  btnActive,           \* pagination buttons with class carousel-btn--active
  btnSelected,         \* pagination buttons with aria-selected="true"
  prevBtn,             \* TRUE when the previous button has been built
  nextBtn,             \* TRUE when the next button has been built
  structure,           \* number of elements of each kind built in the container
  slideParent,         \* parent of slides[0]: "carousel" or "carouselInner"
  listeners,           \* listeners registered with a named handler
  pagListeners,        \* pagination buttons that carry a click listener
  autoplayTimer,       \* let autoplayTimer (0 stands for undefined)
  activeTimers,        \* interval timers of the host that are still armed
  nextTimerId,         \* the handle the next setInterval call returns
  animState,           \* element -> "running" or "paused"
  animAtStart,         \* element -> TRUE when its animation has currentTime 0
  last,                \* the event dispatched by the last step
  entered,             \* mouseenter was handled and no mouseleave since
  runKind,             \* kind of the current run of consecutive moves
  runStart,            \* index at which the current run started
  runLen               \* number of moves of the current run

config == <<carousel, consoleError, slideCount,
            enableNextPrevious, enablePagination, enableAutoplay>>
dom == <<transform, paginationContainer, btnActive, btnSelected, prevBtn, nextBtn,
         structure, slideParent>>
wiring == <<listeners, pagListeners>>
timers == <<autoplayTimer, activeTimers, nextTimerId>>
anims == <<animState, animAtStart>>
observers == <<last, entered, runKind, runStart, runLen>>
vars == <<config, phase, currentSlideIndex, dom, wiring, timers, anims, observers>>

(* ---------------------------------------------------------------------- *)
(* Elements                                                                *)
(* ---------------------------------------------------------------------- *)
Slides == 0 .. (slideCount - 1)
\* The animated elements of the container subtree: every slide, and one
\* element of the container that is not a slide (numbered slideCount).
Elems == 0 .. slideCount

Keys == {"ArrowLeft", "ArrowRight", "Enter"}

NoEvent == [op |-> "none"]

\* The container as the page delivers it: nothing built in it yet.
NoStructure == [inner |-> 0, strips |-> 0, pagBtns |-> 0, prevNext |-> 0]

(* ---------------------------------------------------------------------- *)
(* Pure helpers                                                            *)
(* ---------------------------------------------------------------------- *)
\* moveSlide: the index arithmetic of the two directions.
newSlideIndexNoWrap(direction, cur, n) ==
  IF direction = "next" THEN cur + 1 ELSE cur - 1

newSlideIndexSwapped(direction, cur, n) ==
  IF direction = "next" THEN (cur + 1) % n ELSE (cur + 1) % n

newSlideIndex(direction, cur, n) ==
  IF direction = "next" THEN (cur + 1) % n ELSE (cur - 1 + n) % n

\* adjustSlidePosition: the percentage written into translateX() of slide i.
slideOffsetInitial(i, cur) == 100 * i

slideOffset(i, cur) == 100 * (i - cur)

\* tweakStructure: the percentage written into translateX() of slide index.
initialOffset(index) == index * 100


(* ---------------------------------------------------------------------- *)
(* Initial state: the factory has validated its inputs and returned        *)
(* { create, destroy }.  Nothing has been built, wired or started.         *)
(* ---------------------------------------------------------------------- *)
Init ==
  /\ carousel = TRUE
  /\ consoleError = "none"
  /\ slideCount \in 1 .. MaxSlides
  /\ enableNextPrevious \in BOOLEAN
  /\ enablePagination \in BOOLEAN
  /\ enableAutoplay \in BOOLEAN
  /\ phase = "constructed"
  /\ currentSlideIndex = 0
  /\ transform = [i \in Slides |-> 0]
  /\ paginationContainer = FALSE
  /\ btnActive = {}
  /\ btnSelected = {}
  /\ prevBtn = FALSE
  /\ nextBtn = FALSE
  /\ structure = NoStructure
  /\ slideParent = "carousel"
  /\ listeners = {}
  /\ pagListeners = {}
  /\ autoplayTimer = 0
  /\ activeTimers = {}
  /\ nextTimerId = 1
  /\ animState = [e \in Elems |-> "running"]
  /\ animAtStart = [e \in Elems |-> TRUE]
  /\ last = NoEvent
  /\ entered = FALSE
  /\ runKind = "none"
  /\ runStart = 0
  /\ runLen = 0

(* ---------------------------------------------------------------------- *)
(* Observers of the event history (they do not influence the widget)       *)
(* ---------------------------------------------------------------------- *)
\* A step that is not a move ends the current run of consecutive moves.
EndRun ==
  /\ runKind' = "none"
  /\ runStart' = currentSlideIndex'
  /\ runLen' = 0

\* A move of the given kind ("next", "prev" or "tick") extends the current
\* run when it goes in the same direction, and starts a new run otherwise.
\* A run of timer ticks only is of kind "tick"; it becomes a "next" run as
\* soon as a next click or a right arrow joins it.
ExtendRun(kind) ==
  LET forward == {"next", "tick"}
      continues == /\ runLen < MaxRun
                   /\ \/ kind \in forward /\ runKind \in forward
                      \/ kind = "prev" /\ runKind = "prev"
  IN IF continues
       THEN /\ runKind' = (IF kind = "tick" THEN runKind ELSE kind)
            /\ runStart' = runStart
            /\ runLen' = runLen + 1
       ELSE /\ runKind' = kind
            /\ runStart' = currentSlideIndex
            /\ runLen' = 1

(* ---------------------------------------------------------------------- *)
(* The transition routine                                                  *)
(* ---------------------------------------------------------------------- *)
\* updatePaginationBtns: the buttons that carry the class lose the class and
\* the attribute, then the button at the current index (if any) gets both.
updatePaginationBtnsKeepOld(idx) ==
  IF paginationContainer
    THEN LET currActiveBtns == IF idx \in Slides THEN {idx} ELSE {}
         IN /\ btnActive' = btnActive \cup currActiveBtns
            /\ btnSelected' = btnSelected \cup currActiveBtns
    ELSE UNCHANGED <<btnActive, btnSelected>>

updatePaginationBtns(idx) ==
  IF paginationContainer
    THEN LET prevActiveBtns == btnActive
             currActiveBtns == IF idx \in Slides THEN {idx} ELSE {}
         IN /\ btnActive' = (btnActive \ prevActiveBtns) \cup currActiveBtns
            /\ btnSelected' = (btnSelected \ prevActiveBtns) \cup currActiveBtns
    ELSE UNCHANGED <<btnActive, btnSelected>>

\* adjustSlidePosition: every animation of the container subtree is paused,
\* every slide gets its offset, and the animations of the current slide are
\* rewound to their start and played.
adjustSlidePositionNoRestart(idx) ==
  /\ transform' = [i \in Slides |-> slideOffset(i, idx)]
  /\ animState' = [e \in Elems |-> "paused"]
  /\ animAtStart' = animAtStart

adjustSlidePositionNoPause(idx) ==
  /\ transform' = [i \in Slides |-> slideOffset(i, idx)]
  /\ animState' = [e \in Elems |->
                     IF e \in Slides /\ e = idx THEN "running" ELSE animState[e]]
  /\ animAtStart' = [e \in Elems |->
                     IF e \in Slides /\ e = idx THEN TRUE ELSE animAtStart[e]]

adjustSlidePosition(idx) ==
  /\ transform' = [i \in Slides |-> slideOffset(i, idx)]
  /\ animState' = [e \in Elems |->
                     IF e \in Slides /\ e = idx THEN "running" ELSE "paused"]
  /\ animAtStart' = [e \in Elems |->
                     IF e \in Slides /\ e = idx THEN TRUE ELSE animAtStart[e]]

\* updateCarouselState: reads the index that was just assigned.
updateCarouselState ==
  /\ IF enablePagination
       THEN updatePaginationBtns(currentSlideIndex')
       ELSE UNCHANGED <<btnActive, btnSelected>>
  /\ adjustSlidePosition(currentSlideIndex')

moveSlide(direction) ==
  /\ currentSlideIndex' = newSlideIndex(direction, currentSlideIndex, slideCount)
  /\ updateCarouselState

\* The click handler of a pagination button, bound to its own index.
handlePaginationBtnClickShared(index) ==
  /\ currentSlideIndex' = slideCount - 1
  /\ updateCarouselState

handlePaginationBtnClick(index) ==
  /\ currentSlideIndex' = index
  /\ updateCarouselState

\* What a step that runs no transition leaves alone.
NoTransition ==
  UNCHANGED <<currentSlideIndex, transform, btnActive, btnSelected, anims>>

(* ---------------------------------------------------------------------- *)
(* Autoplay                                                                *)
(* ---------------------------------------------------------------------- *)
\* startAutoplay: setInterval arms a new timer and its handle overwrites
\* autoplayTimer, whatever autoplayTimer held before.
startAutoplay ==
  /\ autoplayTimer' = nextTimerId
  /\ activeTimers' = activeTimers \cup {nextTimerId}
  /\ nextTimerId' = nextTimerId + 1

\* stopAutoplay: clearInterval disarms the timer whose handle autoplayTimer
\* holds; clearInterval(undefined) and a stale handle are no-ops.
stopAutoplay ==
  /\ activeTimers' = activeTimers \ {autoplayTimer}
  /\ UNCHANGED <<autoplayTimer, nextTimerId>>

(* ---------------------------------------------------------------------- *)
(* Lifecycle                                                               *)
(* ---------------------------------------------------------------------- *)
\* tweakStructure: the inner wrapper, the pagination strip with one button
\* per slide (button 0 active, every button with its click listener), the
\* initial offset of every slide and the previous/next buttons.  The slides
\* are moved into the inner wrapper.
tweakStructure ==
  /\ paginationContainer' = enablePagination
  /\ transform' = [i \in Slides |-> initialOffset(i)]
  /\ btnActive' = (IF enablePagination THEN {0} ELSE {})
  /\ btnSelected' = (IF enablePagination THEN {0} ELSE {})
  /\ pagListeners' = (IF enablePagination THEN Slides ELSE {})
  /\ prevBtn' = enableNextPrevious
  /\ nextBtn' = enableNextPrevious
  /\ structure' = [inner |-> structure.inner + 1,
                   strips |-> structure.strips + (IF enablePagination THEN 1 ELSE 0),
                   pagBtns |-> structure.pagBtns
                                 + (IF enablePagination THEN slideCount ELSE 0),
                   prevNext |-> structure.prevNext
                                  + (IF enableNextPrevious THEN 1 ELSE 0)]
  /\ slideParent' = "carouselInner"

\* attachEventListeners: reads the buttons tweakStructure has just built.
attachEventListenersAlways ==
  listeners' = listeners
    \cup (IF prevBtn' THEN {"prevClick"} ELSE {})
    \cup (IF nextBtn' THEN {"nextClick"} ELSE {})
    \cup {"keydown", "mouseenter", "mouseleave"}

attachEventListeners ==
  listeners' = listeners
    \cup (IF prevBtn' THEN {"prevClick"} ELSE {})
    \cup (IF nextBtn' THEN {"nextClick"} ELSE {})
    \cup {"keydown"}
    \cup (IF enableAutoplay THEN {"mouseenter", "mouseleave"} ELSE {})

\* create.  carousel.insertBefore(carouselInner, slides[0]) needs slides[0]
\* to be a child of the container.  The first call finds it there, builds,
\* wires and starts autoplay.  Any later call finds slides[0] inside the
\* inner wrapper of the first call: insertBefore throws NotFoundError before
\* anything is inserted, and create is left through the exception.
CreateRebuilds ==
  /\ phase \in {"constructed", "created", "destroyed"}
  /\ phase' = "created"
  /\ tweakStructure
  /\ attachEventListeners
  /\ IF enableAutoplay /\ nextTimerId <= MaxTimers
       THEN startAutoplay ELSE UNCHANGED timers
  /\ UNCHANGED <<config, currentSlideIndex, anims, entered>>
  /\ last' = [op |-> "create", threw |-> FALSE]
  /\ EndRun

CreateRestartsAnimation ==
  /\ phase \in {"constructed", "created", "destroyed"}
  /\ IF slideParent = "carousel"
       THEN /\ phase' = "created"
            /\ tweakStructure
            /\ attachEventListeners
            /\ IF enableAutoplay THEN startAutoplay ELSE UNCHANGED timers
            /\ animState' = [e \in Elems |-> IF e = 0 THEN "running" ELSE "paused"]
            /\ animAtStart' = [e \in Elems |-> IF e = 0 THEN TRUE ELSE animAtStart[e]]
            /\ UNCHANGED <<config, currentSlideIndex, entered>>
            /\ last' = [op |-> "create", threw |-> FALSE]
       ELSE /\ UNCHANGED <<config, phase, currentSlideIndex, dom, wiring, timers,
                           anims, entered>>
            /\ last' = [op |-> "create", threw |-> TRUE]
  /\ EndRun

Create ==
  /\ phase \in {"constructed", "created", "destroyed"}
  /\ IF slideParent = "carousel"
       THEN /\ phase' = "created"
            /\ tweakStructure
            /\ attachEventListeners
            /\ IF enableAutoplay THEN startAutoplay ELSE UNCHANGED timers
            /\ UNCHANGED <<config, currentSlideIndex, anims, entered>>
            /\ last' = [op |-> "create", threw |-> FALSE]
       ELSE /\ UNCHANGED <<config, phase, currentSlideIndex, dom, wiring, timers,
                           anims, entered>>
            /\ last' = [op |-> "create", threw |-> TRUE]
  /\ EndRun

\* destroy: removes the listeners that were registered with a named handler
\* and clears the interval autoplayTimer refers to.  The pagination buttons
\* are handed a fresh arrow function, which removes nothing.
DestroyKeepsKeydown ==
  /\ phase \in {"created", "destroyed"}
  /\ phase' = "destroyed"
  /\ listeners' = (listeners \ {"prevClick", "nextClick"})
                    \ (IF enableAutoplay THEN {"mouseenter", "mouseleave"} ELSE {})
  /\ pagListeners' = pagListeners
  /\ IF enableAutoplay THEN stopAutoplay ELSE UNCHANGED timers
  /\ UNCHANGED <<config, dom, entered>>
  /\ NoTransition
  /\ last' = [op |-> "destroy"]
  /\ EndRun

DestroyTearsDown ==
  /\ phase \in {"created", "destroyed"}
  /\ phase' = "destroyed"
  /\ listeners' = (listeners \ {"prevClick", "nextClick", "keydown"})
                    \ (IF enableAutoplay THEN {"mouseenter", "mouseleave"} ELSE {})
  /\ pagListeners' = {}
  /\ IF enableAutoplay THEN stopAutoplay ELSE UNCHANGED timers
  /\ paginationContainer' = FALSE
  /\ btnActive' = {}
  /\ btnSelected' = {}
  /\ prevBtn' = FALSE
  /\ nextBtn' = FALSE
  /\ structure' = NoStructure
  /\ UNCHANGED <<config, currentSlideIndex, transform, slideParent, anims, entered>>
  /\ last' = [op |-> "destroy"]
  /\ EndRun

Destroy ==
  /\ phase \in {"created", "destroyed"}
  /\ phase' = "destroyed"
  /\ listeners' = (listeners \ {"prevClick", "nextClick", "keydown"})
                    \ (IF enableAutoplay THEN {"mouseenter", "mouseleave"} ELSE {})
  /\ pagListeners' = pagListeners
  /\ IF enableAutoplay THEN stopAutoplay ELSE UNCHANGED timers
  /\ UNCHANGED <<config, dom, entered>>
  /\ NoTransition
  /\ last' = [op |-> "destroy"]
  /\ EndRun

(* ---------------------------------------------------------------------- *)
(* Events                                                                  *)
(* ---------------------------------------------------------------------- *)
\* A click on the previous button.
PrevClick ==
  /\ prevBtn
  /\ IF "prevClick" \in listeners
       THEN moveSlide("prev") /\ ExtendRun("prev")
       ELSE NoTransition /\ EndRun
  /\ UNCHANGED <<config, phase, paginationContainer, prevBtn, nextBtn,
                 structure, slideParent, wiring, timers, entered>>
  /\ last' = [op |-> "prevClick"]

\* A click on the next button.
NextClick ==
  /\ nextBtn
  /\ IF "nextClick" \in listeners
       THEN moveSlide("next") /\ ExtendRun("next")
       ELSE NoTransition /\ EndRun
  /\ UNCHANGED <<config, phase, paginationContainer, prevBtn, nextBtn,
                 structure, slideParent, wiring, timers, entered>>
  /\ last' = [op |-> "nextClick"]

\* A click on pagination button k.
PaginationClick(k) ==
  /\ paginationContainer
  /\ k \in Slides
  /\ IF k \in pagListeners
       THEN handlePaginationBtnClick(k)
       ELSE NoTransition
  /\ UNCHANGED <<config, phase, paginationContainer, prevBtn, nextBtn,
                 structure, slideParent, wiring, timers, entered>>
  /\ last' = [op |-> "paginationClick", index |-> k, from |-> currentSlideIndex,
              atStart |-> animAtStart[k]]
  /\ EndRun

\* handleKeyboardNav: TRUE when the handler reaches one of the two cases.
keyboardActsAlways(key, inContainer, defaultPrevented) ==
  key \in {"ArrowLeft", "ArrowRight"}

keyboardActs(key, inContainer, defaultPrevented) ==
  /\ inContainer
  /\ ~defaultPrevented
  /\ key \in {"ArrowLeft", "ArrowRight"}

\* A keydown event that reaches the keydown listener of the container.
KeyDown(key, inContainer, defaultPrevented) ==
  /\ LET acts == /\ "keydown" \in listeners
                 /\ keyboardActs(key, inContainer, defaultPrevented)
     IN /\ IF acts
             THEN IF key = "ArrowLeft"
                    THEN moveSlide("prev") /\ ExtendRun("prev")
                    ELSE moveSlide("next") /\ ExtendRun("next")
             ELSE NoTransition /\ EndRun
        /\ last' = [op |-> "keydown", key |-> key, inContainer |-> inContainer,
                    defaultPrevented |-> defaultPrevented,
                    handled |-> ("keydown" \in listeners),
                    preventDefault |-> acts]
  /\ UNCHANGED <<config, phase, paginationContainer, prevBtn, nextBtn,
                 structure, slideParent, wiring, timers, entered>>

\* The callback of interval timer t.
TickPrev(t) ==
  /\ t \in activeTimers
  /\ moveSlide("prev")
  /\ ExtendRun("tick")
  /\ UNCHANGED <<config, phase, paginationContainer, prevBtn, nextBtn,
                 structure, slideParent, wiring, timers, entered>>
  /\ last' = [op |-> "tick"]

TickSkipsPagination(t) ==
  /\ t \in activeTimers
  /\ currentSlideIndex' = newSlideIndex("next", currentSlideIndex, slideCount)
  /\ adjustSlidePosition(currentSlideIndex')
  /\ UNCHANGED <<btnActive, btnSelected>>
  /\ ExtendRun("tick")
  /\ UNCHANGED <<config, phase, paginationContainer, prevBtn, nextBtn,
                 structure, slideParent, wiring, timers, entered>>
  /\ last' = [op |-> "tick"]

Tick(t) ==
  /\ t \in activeTimers
  /\ moveSlide("next")
  /\ ExtendRun("tick")
  /\ UNCHANGED <<config, phase, paginationContainer, prevBtn, nextBtn,
                 structure, slideParent, wiring, timers, entered>>
  /\ last' = [op |-> "tick"]

\* mouseenter on the container.
MouseEnter ==
  /\ IF "mouseenter" \in listeners
       THEN stopAutoplay
       ELSE UNCHANGED timers
  /\ entered' = ("mouseenter" \in listeners)
  /\ NoTransition
  /\ UNCHANGED <<config, phase, paginationContainer, prevBtn, nextBtn,
                 structure, slideParent, wiring>>
  /\ last' = [op |-> "mouseenter"]
  /\ EndRun

\* mouseleave on the container.
MouseLeave ==
  /\ nextTimerId <= MaxTimers
  /\ IF "mouseleave" \in listeners
       THEN startAutoplay
       ELSE UNCHANGED timers
  /\ entered' = FALSE
  /\ NoTransition
  /\ UNCHANGED <<config, phase, paginationContainer, prevBtn, nextBtn,
                 structure, slideParent, wiring>>
  /\ last' = [op |-> "mouseleave"]
  /\ EndRun

\* The host advances the document timeline: the running animations of the
\* container subtree move on, away from their start.
AnimAdvance ==
  /\ \E e \in Elems : animState[e] = "running" /\ animAtStart[e]
  /\ animAtStart' = [e \in Elems |-> animAtStart[e] /\ animState[e] # "running"]
  /\ UNCHANGED <<config, phase, currentSlideIndex, dom, wiring, timers,
                 animState, entered>>
  /\ last' = [op |-> "animation"]
  /\ EndRun

Next ==
  \/ Create
  \/ Destroy
  \/ PrevClick
  \/ NextClick
  \/ \E k \in Slides : PaginationClick(k)
  \/ \E key \in Keys, inContainer \in BOOLEAN, defaultPrevented \in BOOLEAN :
       KeyDown(key, inContainer, defaultPrevented)
  \/ \E t \in activeTimers : Tick(t)
  \/ MouseEnter
  \/ MouseLeave
  \/ AnimAdvance

Spec == Init /\ [][Next]_vars

(* ---------------------------------------------------------------------- *)
(* The factory call                                                        *)
(* ---------------------------------------------------------------------- *)
NoContainerMessage == "Specify a valid selector for the carousel."
NoSlidesMessage == "Specify a valid selector for slides."

\* The page before JSCarousel is called: the container selector matches an
\* element or not, and the slide selector matches 0..MaxSlides elements
\* inside the container (none when there is no container).
InitFactory ==
  /\ carousel \in BOOLEAN
  /\ slideCount \in (IF carousel THEN 0 .. MaxSlides ELSE {0})
  /\ consoleError = "none"
  /\ enableNextPrevious \in BOOLEAN
  /\ enablePagination \in BOOLEAN
  /\ enableAutoplay \in BOOLEAN
  /\ phase = "start"
  /\ currentSlideIndex = 0
  /\ transform = [i \in Slides |-> 0]
  /\ paginationContainer = FALSE
  /\ btnActive = {}
  /\ btnSelected = {}
  /\ prevBtn = FALSE
  /\ nextBtn = FALSE
  /\ structure = NoStructure
  /\ slideParent = "carousel"
  /\ listeners = {}
  /\ pagListeners = {}
  /\ autoplayTimer = 0
  /\ activeTimers = {}
  /\ nextTimerId = 1
  /\ animState = [e \in Elems |-> "running"]
  /\ animAtStart = [e \in Elems |-> TRUE]
  /\ last = NoEvent
  /\ entered = FALSE
  /\ runKind = "none"
  /\ runStart = 0
  /\ runLen = 0

\* JSCarousel: looks the container and the slides up and returns null with a
\* diagnostic when either is missing, { create, destroy } otherwise.
JSCarouselNoSlideCheck ==
  /\ phase = "start"
  /\ IF ~carousel
       THEN consoleError' = NoContainerMessage /\ phase' = "null"
       ELSE consoleError' = consoleError /\ phase' = "constructed"
  /\ UNCHANGED <<carousel, slideCount, enableNextPrevious, enablePagination,
                 enableAutoplay, currentSlideIndex, dom, wiring, timers, anims,
                 entered>>
  /\ last' = [op |-> "factory"]
  /\ EndRun

JSCarousel ==
  /\ phase = "start"
  /\ IF ~carousel
       THEN consoleError' = NoContainerMessage /\ phase' = "null"
       ELSE IF slideCount = 0
              THEN consoleError' = NoSlidesMessage /\ phase' = "null"
              ELSE consoleError' = consoleError /\ phase' = "constructed"
  /\ UNCHANGED <<carousel, slideCount, enableNextPrevious, enablePagination,
                 enableAutoplay, currentSlideIndex, dom, wiring, timers, anims,
                 entered>>
  /\ last' = [op |-> "factory"]
  /\ EndRun

NextFactory ==
  \/ JSCarousel
  \/ Next

SpecFactory == InitFactory /\ [][NextFactory]_vars

TypeOK ==
  /\ slideCount \in 0 .. MaxSlides
  /\ phase \in {"start", "null", "constructed", "created", "destroyed"}
  /\ slideParent \in {"carousel", "carouselInner"}
  /\ btnActive \subseteq Slides
  /\ btnSelected \subseteq Slides
  /\ activeTimers \subseteq 1 .. MaxTimers
  /\ autoplayTimer \in 0 .. MaxTimers

(* ---------------------------------------------------------------------- *)
(* Properties                                                              *)
(* ---------------------------------------------------------------------- *)

\* C1: in every reachable state the current slide index is an integer with
\* 0 <= index < slideCount.
C1_IndexInRange ==
  /\ currentSlideIndex \in Int
  /\ 0 <= currentSlideIndex
  /\ currentSlideIndex < slideCount

\* A previous move from index 0 has wrapped to the last of several slides.
C1_Witness ==
  /\ slideCount >= 2
  /\ runKind = "prev" /\ runLen = 1 /\ runStart = 0
  /\ currentSlideIndex = slideCount - 1

\* C2: once create has run, every slide i has offset 100 * (i - current), so
\* the current slide is the only one at offset 0, earlier slides are at
\* negative and later slides at positive multiples of 100.
C2_PositioningLaw ==
  phase # "constructed" =>
    /\ \A i \in Slides : transform[i] = 100 * (i - currentSlideIndex)
    /\ {i \in Slides : transform[i] = 0} = {currentSlideIndex}
    /\ \A i \in Slides : (i < currentSlideIndex) => transform[i] < 0
    /\ \A i \in Slides : (i > currentSlideIndex) => transform[i] > 0

\* A transition has put the middle slide of three at offset 0.
C2_Witness ==
  /\ slideCount = 3
  /\ currentSlideIndex = 1
  /\ last.op \in {"nextClick", "prevClick", "tick", "keydown", "paginationClick"}
  /\ transform = [i \in Slides |-> 100 * (i - 1)]

\* C3: when pagination is enabled, in every state after create exactly one
\* pagination button carries the active class and aria-selected, and it is
\* the button of the current slide index.
C3_OneActiveButton ==
  (enablePagination /\ phase # "constructed") =>
    /\ btnActive = {currentSlideIndex}
    /\ btnSelected = {currentSlideIndex}
    /\ Cardinality(btnActive) = 1

\* The marker has moved away from button 0 to the last of three buttons.
C3_Witness ==
  /\ enablePagination /\ phase = "created"
  /\ slideCount = 3
  /\ last.op \in {"nextClick", "prevClick", "tick", "keydown", "paginationClick"}
  /\ currentSlideIndex = 2
  /\ btnActive = {2}

\* C4: a run of consecutive next moves that started at index s stands at
\* (s + length) mod slideCount and a run of consecutive previous moves at
\* (s - length) mod slideCount; after slideCount moves in one direction the
\* index is back at s, next from the last slide gives 0 and previous from 0
\* gives the last slide.
C4_CircularClosure ==
  /\ runKind \in {"next", "tick"} =>
       /\ currentSlideIndex = (runStart + runLen) % slideCount
       /\ (runLen = 1 /\ runStart = slideCount - 1) => currentSlideIndex = 0
  /\ runKind = "prev" =>
       /\ currentSlideIndex = (runStart + runLen * (slideCount - 1)) % slideCount
       /\ (runLen = 1 /\ runStart = 0) => currentSlideIndex = slideCount - 1
  /\ (runKind # "none" /\ runLen = slideCount) => currentSlideIndex = runStart

\* slideCount previous moves in a row from a start other than 0.
C4_Witness ==
  /\ slideCount = 3
  /\ runKind = "prev" /\ runLen = slideCount
  /\ runStart = 1
  /\ currentSlideIndex = 1

\* C5: on a live carousel a click on pagination button k leaves the index at
\* k whatever it was before, also when k is already current, and the
\* animation of slide k is rewound to its start and running.
C5_PaginationJump ==
  (last.op = "paginationClick" /\ phase = "created") =>
    /\ currentSlideIndex = last.index
    /\ animAtStart[last.index]
    /\ animState[last.index] = "running"

\* The button of the current slide was clicked while the animation of that
\* slide had already advanced.
C5_Witness ==
  /\ last.op = "paginationClick" /\ phase = "created"
  /\ slideCount >= 2
  /\ last.index = last.from
  /\ last.index < slideCount - 1
  /\ ~last.atStart
  /\ currentSlideIndex = last.index

\* C6: a keydown handled by the container moves the index (previous for
\* ArrowLeft, next for ArrowRight) and suppresses the default action exactly
\* when its target is inside the container, its default was not prevented
\* and its key is one of the two arrows; every other keydown leaves index,
\* offsets and pagination markers unchanged and suppresses nothing.
C6_KeyboardGuard ==
  [][(last'.op = "keydown" /\ last'.handled) =>
       IF /\ last'.inContainer
          /\ ~last'.defaultPrevented
          /\ last'.key \in {"ArrowLeft", "ArrowRight"}
         THEN /\ last'.preventDefault
              /\ currentSlideIndex' =
                   IF last'.key = "ArrowRight"
                     THEN (currentSlideIndex + 1) % slideCount
                     ELSE (currentSlideIndex - 1 + slideCount) % slideCount
         ELSE /\ ~last'.preventDefault
              /\ UNCHANGED <<currentSlideIndex, transform, btnActive, btnSelected>>
    ]_vars

\* An arrow key whose default was already prevented reached the handler of a
\* carousel that stands on a slide other than the first.
C6_Witness ==
  /\ last.op = "keydown" /\ last.handled
  /\ last.key = "ArrowRight" /\ last.inContainer /\ last.defaultPrevented
  /\ ~last.preventDefault
  /\ currentSlideIndex = 1

\* C7: at most one autoplay timer of the instance is armed in every state.
C7_AtMostOneTimer ==
  Cardinality(activeTimers) <= 1

\* C8: a run of timer ticks only, started at index s, stands at
\* (s + number of ticks) mod slideCount: every tick is exactly one next move.
C8_TicksAdvance ==
  runKind = "tick" => currentSlideIndex = (runStart + runLen) % slideCount

\* More ticks in a row than there are slides, from a start other than 0.
C8_Witness ==
  /\ runKind = "tick"
  /\ slideCount = 3
  /\ runLen = 4
  /\ runStart = 1
  /\ currentSlideIndex = 2

\* C9: on a live carousel, between a handled mouseenter and the next
\* mouseleave no timer tick changes the index.
C9_HoverSuspends ==
  [][(phase = "created" /\ entered /\ last'.op = "tick") =>
       currentSlideIndex' = currentSlideIndex]_vars

\* C10: after destroy no interval timer of the instance is armed, so no tick
\* changes the index any more.
C10_NoTimerAfterDestroy ==
  phase = "destroyed" => activeTimers = {}

\* C11: once destroy has run, a click on the previous or next button, a
\* keydown on the container and a mouseenter or mouseleave on the container
\* change neither the index, the offsets, the pagination markers nor the
\* timers.
C11_DetachedAfterDestroy ==
  [][(/\ phase = "destroyed"
      /\ last'.op \in {"prevClick", "nextClick", "keydown", "mouseenter", "mouseleave"})
     => UNCHANGED <<currentSlideIndex, transform, btnActive, btnSelected, timers>>
    ]_vars

\* A right arrow inside the container, not prevented, was dispatched to a
\* destroyed carousel that stands on slide 1 and did not reach the handler.
C11_Witness ==
  /\ phase = "destroyed"
  /\ last.op = "keydown" /\ last.key = "ArrowRight"
  /\ last.inContainer /\ ~last.defaultPrevented
  /\ ~last.handled
  /\ slideCount = 3
  /\ currentSlideIndex = 1

\* C12: once destroy has run, a click on a pagination button changes neither
\* the index, the offsets nor the pagination markers.
C12_PaginationDetached ==
  [][(phase = "destroyed" /\ last'.op = "paginationClick")
     => UNCHANGED <<currentSlideIndex, transform, btnActive, btnSelected>>
    ]_vars

\* C14: destroy leaves the index, every offset, the pagination markers and
\* everything create built as they are; it only takes listeners away and
\* disarms timers.
C14_DestroyFrame ==
  [][(last'.op = "destroy")
     => /\ UNCHANGED <<currentSlideIndex, transform, btnActive, btnSelected>>
        /\ UNCHANGED <<structure, slideParent, paginationContainer, prevBtn, nextBtn>>
        /\ listeners' \subseteq listeners
        /\ pagListeners' \subseteq pagListeners
        /\ activeTimers' \subseteq activeTimers
    ]_vars

\* A carousel with every kind of control was destroyed away from slide 0.
C14_Witness ==
  /\ last.op = "destroy"
  /\ enablePagination /\ enableNextPrevious
  /\ slideCount = 3
  /\ currentSlideIndex = 2
  /\ btnActive = {2}
  /\ structure = [inner |-> 1, strips |-> 1, pagBtns |-> 3, prevNext |-> 1]

\* C15: with autoplay disabled no timer is ever armed, no mouseenter or
\* mouseleave listener is registered, and a mouseenter or mouseleave changes
\* neither the timers nor the index.
C15_AutoplayDisabled ==
  [][(~enableAutoplay)
     => /\ activeTimers' = {}
        /\ autoplayTimer' = 0
        /\ nextTimerId' = 1
        /\ "mouseenter" \notin listeners'
        /\ "mouseleave" \notin listeners'
        /\ (last'.op \in {"mouseenter", "mouseleave"})
             => UNCHANGED <<currentSlideIndex, timers>>
    ]_vars

\* A mouseleave reached a live carousel without autoplay.
C15_Witness ==
  /\ ~enableAutoplay
  /\ phase = "created"
  /\ last.op = "mouseleave"
  /\ currentSlideIndex = 1
  /\ activeTimers = {}

\* C13: the factory returns null, with the diagnostic of the missing part,
\* exactly when the container or the slides are missing, and a handle
\* otherwise; in both cases nothing has been built, registered or started
\* when it returns, and a handle exists only for a container with slides.
C13_AllOrNothing ==
  LET untouched ==
        /\ currentSlideIndex = 0
        /\ transform = [i \in Slides |-> 0]
        /\ structure = [inner |-> 0, strips |-> 0, pagBtns |-> 0, prevNext |-> 0]
        /\ slideParent = "carousel"
        /\ ~paginationContainer /\ ~prevBtn /\ ~nextBtn
        /\ btnActive = {} /\ btnSelected = {}
        /\ listeners = {} /\ pagListeners = {}
        /\ activeTimers = {} /\ autoplayTimer = 0 /\ nextTimerId = 1
  IN /\ phase = "start" => consoleError = "none"
     /\ phase = "null" =>
          /\ ~carousel \/ slideCount = 0
          /\ consoleError = (IF ~carousel
                               THEN "Specify a valid selector for the carousel."
                               ELSE "Specify a valid selector for slides.")
          /\ untouched
     /\ phase = "constructed" =>
          /\ carousel /\ slideCount >= 1
          /\ consoleError = "none"
          /\ untouched
     /\ phase \in {"created", "destroyed"} =>
          /\ carousel /\ slideCount >= 1
          /\ consoleError = "none"

\* The factory found the container but no slide in it and returned null;
\* events on the page afterwards reach nothing.
C13_Witness ==
  /\ phase = "null"
  /\ carousel /\ slideCount = 0
  /\ consoleError = "Specify a valid selector for slides."
  /\ last.op = "mouseleave"

\* C16 as stated: a create on an instance that was already created adds one
\* more inner wrapper, one more pagination strip with a button per slide
\* (pagination enabled) and one more pair of previous/next buttons (enabled).
C16_SecondCreateDuplicates ==
  [][(last'.op = "create" /\ phase \in {"created", "destroyed"})
     => /\ ~last'.threw
        /\ structure'.inner = structure.inner + 1
        /\ structure'.strips = structure.strips + (IF enablePagination THEN 1 ELSE 0)
        /\ structure'.pagBtns =
             structure.pagBtns + (IF enablePagination THEN slideCount ELSE 0)
        /\ structure'.prevNext =
             structure.prevNext + (IF enableNextPrevious THEN 1 ELSE 0)
    ]_vars

\* C16 as amended: a create on an instance that was already created throws
\* and adds nothing: the elements, offsets, markers, listeners, timers and
\* the index stay those the first call left.
C16_SecondCreateThrows ==
  [][(last'.op = "create" /\ phase \in {"created", "destroyed"})
     => /\ last'.threw
        /\ UNCHANGED <<structure, slideParent, paginationContainer, prevBtn, nextBtn>>
        /\ UNCHANGED <<transform, btnActive, btnSelected, currentSlideIndex>>
        /\ UNCHANGED <<listeners, pagListeners, timers, phase>>
    ]_vars

\* create was called again on a live carousel with every kind of control,
\* away from slide 0, and the structure is still that of the first call.
C16_Witness ==
  /\ last.op = "create" /\ last.threw
  /\ phase = "created"
  /\ enablePagination /\ enableNextPrevious /\ enableAutoplay
  /\ slideCount = 3
  /\ currentSlideIndex = 1
  /\ structure = [inner |-> 1, strips |-> 1, pagBtns |-> 3, prevNext |-> 1]
  /\ Cardinality(activeTimers) = 1

TransitionRan ==
  \/ last.op = "tick"
  \/ last.op = "prevClick" /\ "prevClick" \in listeners
  \/ last.op = "nextClick" /\ "nextClick" \in listeners
  \/ last.op = "paginationClick" /\ last.index \in pagListeners
  \/ last.op = "keydown" /\ last.preventDefault

\* C18: when a handler that ran the transition routine has returned, the
\* animation of the current slide is at its start and playing, the marker
\* is on the button of the current slide and every offset obeys the
\* positioning law: the three effects are seen together.
C18_TransitionRestartsAnimation ==
  TransitionRan =>
    /\ animAtStart[currentSlideIndex]
    /\ animState[currentSlideIndex] = "running"
    /\ paginationContainer => btnActive = {currentSlideIndex}
    /\ \A i \in Slides : transform[i] = 100 * (i - currentSlideIndex)

\* A next click has brought the carousel to slide 2 while the animation of
\* slide 1, which had moved on, stays paused away from its start.
C18_Witness ==
  /\ last.op = "nextClick" /\ "nextClick" \in listeners
  /\ slideCount = 3
  /\ currentSlideIndex = 2
  /\ ~animAtStart[1] /\ animState[1] = "paused"
  /\ animAtStart[2] /\ animState[2] = "running"

\* C19: a timer tick and a handled click on the next button lead from the
\* same state to the same index, offsets, pagination markers and animation
\* state, and leave the timers alone.
C19_TickIsNextClick ==
  [][(\/ last'.op = "tick"
      \/ last'.op = "nextClick" /\ "nextClick" \in listeners)
     => LET idx == (currentSlideIndex + 1) % slideCount
        IN /\ currentSlideIndex' = idx
           /\ transform' = [i \in Slides |-> 100 * (i - idx)]
           /\ btnActive' = (IF paginationContainer THEN {idx} ELSE btnActive)
           /\ btnSelected' = (IF paginationContainer THEN {idx} ELSE btnSelected)
           /\ animState' = [e \in Elems |-> IF e = idx THEN "running" ELSE "paused"]
           /\ animAtStart' = [e \in Elems |-> (e = idx) \/ animAtStart[e]]
           /\ UNCHANGED <<autoplayTimer, activeTimers, nextTimerId>>
    ]_vars

\* A tick has wrapped a carousel with pagination from the last slide to
\* slide 0 in a state in which the next button was wired as well.
C19_Witness ==
  /\ last.op = "tick"
  /\ nextBtn /\ "nextClick" \in listeners
  /\ enablePagination
  /\ slideCount = 3
  /\ runLen = 1 /\ runStart = 2
  /\ currentSlideIndex = 0

\* C20: when a handler that ran the transition routine has returned, the
\* animation of the current slide is the only one of the container subtree
\* that is playing; those of the other slides and of the other elements of
\* the container are paused.
C20_OnlyCurrentPlays ==
  TransitionRan =>
    \A e \in Elems : (animState[e] = "running") <=> (e = currentSlideIndex)

\* A pagination jump has paused the animation of a non-slide element and of
\* slide 0, both of which had been running and had moved on.
C20_Witness ==
  /\ last.op = "paginationClick" /\ last.index \in pagListeners
  /\ slideCount = 3
  /\ currentSlideIndex = 2
  /\ animState[slideCount] = "paused" /\ ~animAtStart[slideCount]
  /\ animState[0] = "paused" /\ ~animAtStart[0]
  /\ animState[1] = "paused"

====
